---- MODULE Spec2Model ----
\* Model of dsh_rest_api_client/update_openapi_spec.py and
\* dsh_rest_api_client/add_operation_id.py: operationId generation, the
\* in-memory transform of an OpenAPI document, and the load / transform /
\* write pipeline of update_spec.
\*
\* Python strings that the code takes apart (paths, methods, tags, file names,
\* versions, operationIds) are sequences of one-character strings, so that
\* strip, split, capitalize, lower and slicing are computed character by
\* character.  An optional dictionary key is None (<<>>) or Some(v) (<<v>>).
\* A Python dict is the sequence of its <<key, value>> items in insertion
\* order, with distinct keys.
EXTENDS Integers, Sequences, FiniteSets, TLC

VARIABLES
    path, method, tag,      \* arguments of one generate_operation_id call
    operation_id,           \* outcome of that call
    openapi_spec,           \* the in-memory Specification Document
    original,               \* the document as it was before any transform
    applied,                \* transform functions applied so far, in order
    raised,                 \* name of the exception that escaped, or ""
    script,                 \* which program runs
    input_file,             \* sys.argv[1]
    disk,                   \* files: name -> content
    disk0,                  \* the files before the run
    dirs,                   \* directories created by the run
    pc,                     \* position of update_spec
    stdout,                 \* lines printed
    exit_code,              \* process exit status, -1 while running
    log                     \* stages entered, in order

vars == <<path, method, tag, operation_id, openapi_spec, original, applied,
          raised, script, input_file, disk, disk0, dirs, pc, stdout,
          exit_code, log>>

genVars == <<path, method, tag, operation_id>>
docVars == <<openapi_spec, original, applied, raised>>
runVars == <<script, input_file, disk, disk0, dirs, pc, stdout, exit_code, log>>

None == <<>>
Some(v) == <<v>>

\* ---------------------------------------------------------------------
\* Bounds
\* ---------------------------------------------------------------------
MaxPaths == 2
MaxRuns == 2

\* ---------------------------------------------------------------------
\* Python str methods, on sequences of characters
\* ---------------------------------------------------------------------
ascii_lowercase == <<"a", "b", "c", "d", "e", "f", "g", "h", "i", "j", "k", "l", "m", "n", "o", "p", "q", "r", "s", "t", "u", "v", "w", "x", "y", "z">>
ascii_uppercase == <<"A", "B", "C", "D", "E", "F", "G", "H", "I", "J", "K", "L", "M", "N", "O", "P", "Q", "R", "S", "T", "U", "V", "W", "X", "Y", "Z">>

upper(c) ==
    IF \E i \in 1..26 : ascii_lowercase[i] = c
    THEN ascii_uppercase[CHOOSE i \in 1..26 : ascii_lowercase[i] = c]
    ELSE c

lower(c) ==
    IF \E i \in 1..26 : ascii_uppercase[i] = c
    THEN ascii_lowercase[CHOOSE i \in 1..26 : ascii_uppercase[i] = c]
    ELSE c

str_lower(s) == [i \in 1..Len(s) |-> lower(s[i])]

\* str.capitalize(): first character upper-cased, all the others lower-cased
capitalize(s) ==
    [i \in 1..Len(s) |-> IF i = 1 THEN upper(s[i]) ELSE lower(s[i])]

\* str.strip(ch): drop every leading and trailing ch
strip(s, ch) ==
    IF \A i \in 1..Len(s) : s[i] = ch
    THEN <<>>
    ELSE LET first == CHOOSE i \in 1..Len(s) :
                          s[i] # ch /\ \A j \in 1..(i-1) : s[j] = ch
             last == CHOOSE i \in 1..Len(s) :
                          s[i] # ch /\ \A j \in (i+1)..Len(s) : s[j] = ch
         IN SubSeq(s, first, last)

\* str.split(sep): one piece per separator occurrence plus one, empty pieces kept
RECURSIVE split(_, _)
split(s, sep) ==
    IF \A i \in 1..Len(s) : s[i] # sep
    THEN <<s>>
    ELSE LET k == CHOOSE i \in 1..Len(s) :
                      s[i] = sep /\ \A j \in 1..(i-1) : s[j] # sep
         IN <<SubSeq(s, 1, k-1)>> \o split(SubSeq(s, k+1, Len(s)), sep)

\* ''.join(parts)
RECURSIVE join(_)
join(parts) ==
    IF parts = <<>> THEN <<>> ELSE Head(parts) \o join(Tail(parts))

\* str.replace(old, new) for single characters
replace(s, old, new) == [i \in 1..Len(s) |-> IF s[i] = old THEN new ELSE s[i]]

\* part[1:-1]
slice_1_m1(part) == SubSeq(part, 2, Len(part) - 1)

\* [x for x in xs if x != drop]
RECURSIVE without(_, _)
without(xs, drop) ==
    IF xs = <<>> THEN <<>>
    ELSE IF Head(xs) = drop THEN without(Tail(xs), drop)
         ELSE <<Head(xs)>> \o without(Tail(xs), drop)

\* the outcome of a Python call: a value, or an exception that escapes it
Returned(v) == [ok |-> TRUE, value |-> v, exc |-> ""]
Raised(e) == [ok |-> FALSE, value |-> <<>>, exc |-> e]

render_part_no_by(part) ==
    IF part[1] # "{" THEN capitalize(part)
    ELSE capitalize(slice_1_m1(part))

\* part.capitalize() if part[0] != '{' else 'By' + part[1:-1].capitalize()
\* (only evaluated for a non-empty part: part[0] of '' raises IndexError)
render_part(part) ==
    IF part[1] # "{" THEN capitalize(part)
    ELSE <<"B", "y">> \o capitalize(slice_1_m1(part))

render_parts(path_parts) == [i \in 1..Len(path_parts) |-> render_part(path_parts[i])]

\* add_operation_id.py: generate_operation_id(path, method)
generate_operation_id_aoi(p, m) ==
    LET path_parts == split(strip(p, "/"), "/")
    IN IF \E i \in 1..Len(path_parts) : path_parts[i] = <<>>
       THEN Raised("IndexError")
       ELSE Returned(str_lower(m) \o join(render_parts(path_parts)))

generate_operation_id_keep_allocation(p, m, t) ==
    LET path_parts == split(strip(p, "/"), "/")
        words == split(t, " ")
        tg == join(<<words[1]>> \o [i \in 1..(Len(words)-1) |-> capitalize(words[i+1])])
    IN IF \E i \in 1..Len(path_parts) : path_parts[i] = <<>>
       THEN Raised("IndexError")
       ELSE Returned(tg \o capitalize(m) \o join(render_parts(path_parts)))

\* update_openapi_spec.py: generate_operation_id(path, method, tag)
generate_operation_id(p, m, t) ==
    LET path_parts == without(split(strip(p, "/"), "/"), <<"a", "l", "l", "o", "c", "a", "t", "i", "o", "n">>)
        words == split(t, " ")
        tg == join(<<words[1]>> \o [i \in 1..(Len(words)-1) |-> capitalize(words[i+1])])
    IN IF \E i \in 1..Len(path_parts) : path_parts[i] = <<>>
       THEN Raised("IndexError")
       ELSE Returned(tg \o capitalize(m) \o join(render_parts(path_parts)))

\* ---------------------------------------------------------------------
\* Inputs of generate_operation_id
\* ---------------------------------------------------------------------
RecognizedMethods == << <<"g", "e", "t">>, <<"p", "o", "s", "t">>, <<"p", "u", "t">>, <<"d", "e", "l", "e", "t", "e">>, <<"p", "a", "t", "c", "h">>, <<"h", "e", "a", "d">> >>
RecognizedMethods_aoi == << <<"g", "e", "t">>, <<"p", "o", "s", "t">>, <<"p", "u", "t">>, <<"d", "e", "l", "e", "t", "e">>, <<"p", "a", "t", "c", "h">> >>

AllocationPath == <<"/", "a", "l", "l", "o", "c", "a", "t", "i", "o", "n", "/", "{", "t", "e", "n", "a", "n", "t", "}", "/", "s", "e", "r", "v", "i", "c", "e", "/", "{", "a", "p", "p", "i", "d", "}">>

PathTemplates ==
    { AllocationPath, <<"/", "u", "s", "e", "r", "/", "{", "i", "d", "}">>, <<"/", "a", "/", "/", "b">>, <<"/">>, <<"/", "t", "a", "s", "k", "/", "{", "I", "D", "}", "/", "l", "o", "g", "S", "t", "r", "e", "a", "m">>,
      <<"/", "x", "/", "{", "}">>, <<"a", "l", "l", "o", "c", "a", "t", "i", "o", "n", "/">>, <<"/", "{", "i", "d", "}", "/", "/">> }

Tags == { <<>>, <<"A", "l", "l", "o", "c", "a", "t", "i", "o", "n", " ", "S", "e", "r", "v", "i", "c", "e">>, <<"a", "p", "p", " ", "c", "a", "t", "a", "l", "o", "g", " ", "m", "a", "n", "i", "f", "e", "s", "t">>, <<"x">> }

NotCalled == [by |-> "none", ok |-> FALSE, value |-> <<>>, exc |-> ""]

\* ---------------------------------------------------------------------
\* Python dict operations, on sequences of <<key, value>> items
\* ---------------------------------------------------------------------
keys(d) == { d[i][1] : i \in 1..Len(d) }

index_of(d, k) == CHOOSE i \in 1..Len(d) : d[i][1] = k

\* d[k] = v: an existing key keeps its position, a new key goes last
dict_set(d, k, v) ==
    IF k \in keys(d) THEN [d EXCEPT ![index_of(d, k)] = <<k, v>>]
    ELSE Append(d, <<k, v>>)

\* the dict a parser builds from the members of an object, in text order
RECURSIVE dict_from_pairs(_, _)
dict_from_pairs(d, pairs) ==
    IF pairs = <<>> THEN d
    ELSE dict_from_pairs(dict_set(d, Head(pairs)[1], Head(pairs)[2]), Tail(pairs))

\* ---------------------------------------------------------------------
\* The transform
\* ---------------------------------------------------------------------
AuthorizationParameter ==
    [name |-> "Authorization", in |-> "header",
     description |-> "Authorization header (bearer token)",
     required |-> TRUE, deprecated |-> FALSE, schema |-> [type |-> "string"]]

\* update_openapi_spec.py, body of the loop for one matched method
add_missing_items_op_overwrite_id(p, m, op) ==
    IF op.tags # None /\ op.tags[1] = <<>> THEN Raised("IndexError")
    ELSE LET t == IF op.tags = None THEN <<>> ELSE op.tags[1][1]
             gen == generate_operation_id(p, m, t)
         IN IF ~gen.ok THEN Raised(gen.exc)
            ELSE Returned([op EXCEPT
                     !.operationId = Some(gen.value),
                     !.parameters = Some((IF @ = None THEN <<>> ELSE @[1])
                                         \o <<AuthorizationParameter>>)])

add_missing_items_op_dedup(p, m, op) ==
    IF op.tags # None /\ op.tags[1] = <<>> THEN Raised("IndexError")
    ELSE LET t == IF op.tags = None THEN <<>> ELSE op.tags[1][1]
             gen == generate_operation_id(p, m, t)
             old == IF op.parameters = None THEN <<>> ELSE op.parameters[1]
         IN IF op.operationId = None /\ ~gen.ok THEN Raised(gen.exc)
            ELSE Returned([op EXCEPT
                     !.operationId = IF @ = None THEN Some(gen.value) ELSE @,
                     !.parameters =
                         IF \E i \in 1..Len(old) : old[i] = AuthorizationParameter
                         THEN Some(old)
                         ELSE Some(old \o <<AuthorizationParameter>>)])

add_missing_items_op_prepend(p, m, op) ==
    IF op.tags # None /\ op.tags[1] = <<>> THEN Raised("IndexError")
    ELSE LET t == IF op.tags = None THEN <<>> ELSE op.tags[1][1]
             gen == generate_operation_id(p, m, t)
         IN IF op.operationId = None /\ ~gen.ok THEN Raised(gen.exc)
            ELSE Returned([op EXCEPT
                     !.operationId = IF @ = None THEN Some(gen.value) ELSE @,
                     !.parameters = Some(<<AuthorizationParameter>>
                                         \o (IF @ = None THEN <<>> ELSE @[1]))])

add_missing_items_op(p, m, op) ==
    \* tag = methods[method].get('tags', [''])[0]
    IF op.tags # None /\ op.tags[1] = <<>> THEN Raised("IndexError")
    ELSE LET t == IF op.tags = None THEN <<>> ELSE op.tags[1][1]
             gen == generate_operation_id(p, m, t)
         IN IF op.operationId = None /\ ~gen.ok THEN Raised(gen.exc)
            ELSE Returned([op EXCEPT
                     !.operationId = IF @ = None THEN Some(gen.value) ELSE @,
                     !.parameters = Some((IF @ = None THEN <<>> ELSE @[1])
                                         \o <<AuthorizationParameter>>)])

\* the two nested loops of add_missing_items, from path i and method k on;
\* the document is mutated in place, so what was done before an exception stays
RECURSIVE walk_add_missing_items(_, _, _)
walk_add_missing_items(paths, i, k) ==
    IF i > Len(paths) THEN [paths |-> paths, exc |-> ""]
    ELSE IF k > Len(RecognizedMethods) THEN walk_add_missing_items(paths, i + 1, 1)
    ELSE LET m == RecognizedMethods[k]
             methods == paths[i][2]
         IN IF m \notin keys(methods) THEN walk_add_missing_items(paths, i, k + 1)
            ELSE LET j == index_of(methods, m)
                     r == add_missing_items_op(paths[i][1], m, methods[j][2])
                 IN IF ~r.ok THEN [paths |-> paths, exc |-> r.exc]
                    ELSE walk_add_missing_items(
                             [paths EXCEPT ![i][2][j][2] = r.value], i, k + 1)

add_missing_items_recognized_only(spec) ==
    IF spec.type # "dict" THEN [spec |-> spec, exc |-> "AttributeError"]
    ELSE IF spec.paths = None THEN [spec |-> spec, exc |-> ""]
    ELSE LET r == walk_add_missing_items(spec.paths[1], 1, 1)
             keep(e) == \E k \in 1..Len(RecognizedMethods) : RecognizedMethods[k] = e[1]
             rebuilt == [i \in 1..Len(r.paths) |->
                            <<r.paths[i][1], SelectSeq(r.paths[i][2], keep)>>]
         IN [spec |-> [spec EXCEPT !.paths = Some(rebuilt)], exc |-> r.exc]

\* update_openapi_spec.py: add_missing_items(openapi_spec)
add_missing_items(spec) ==
    IF spec.type # "dict" THEN [spec |-> spec, exc |-> "AttributeError"]
    ELSE IF spec.paths = None THEN [spec |-> spec, exc |-> ""]
    ELSE LET r == walk_add_missing_items(spec.paths[1], 1, 1)
         IN [spec |-> [spec EXCEPT !.paths = Some(r.paths)], exc |-> r.exc]

\* add_operation_id.py, body of the loop for one matched method
add_operation_ids_op(p, m, op) ==
    IF op.operationId # None THEN Returned(op)
    ELSE LET gen == generate_operation_id_aoi(p, m)
         IN IF ~gen.ok THEN Raised(gen.exc)
            ELSE Returned([op EXCEPT !.operationId = Some(gen.value)])

RECURSIVE walk_add_operation_ids(_, _, _)
walk_add_operation_ids(paths, i, k) ==
    IF i > Len(paths) THEN [paths |-> paths, exc |-> ""]
    ELSE IF k > Len(RecognizedMethods_aoi) THEN walk_add_operation_ids(paths, i + 1, 1)
    ELSE LET m == RecognizedMethods_aoi[k]
             methods == paths[i][2]
         IN IF m \notin keys(methods) THEN walk_add_operation_ids(paths, i, k + 1)
            ELSE LET j == index_of(methods, m)
                     r == add_operation_ids_op(paths[i][1], m, methods[j][2])
                 IN IF ~r.ok THEN [paths |-> paths, exc |-> r.exc]
                    ELSE walk_add_operation_ids(
                             [paths EXCEPT ![i][2][j][2] = r.value], i, k + 1)

\* add_operation_id.py: add_operation_ids(openapi_spec)
add_operation_ids(spec) ==
    IF spec.type # "dict" THEN [spec |-> spec, exc |-> "AttributeError"]
    ELSE IF spec.paths = None THEN [spec |-> spec, exc |-> ""]
    ELSE LET r == walk_add_operation_ids(spec.paths[1], 1, 1)
         IN [spec |-> [spec EXCEPT !.paths = Some(r.paths)], exc |-> r.exc]

\* ---------------------------------------------------------------------
\* Documents
\* ---------------------------------------------------------------------
LimitParameter ==
    [name |-> "limit", in |-> "query", description |-> "page size",
     required |-> FALSE, deprecated |-> FALSE, schema |-> [type |-> "integer"]]

QueryAuthorization ==
    [name |-> "Authorization", in |-> "query", description |-> "token",
     required |-> FALSE, deprecated |-> TRUE, schema |-> [type |-> "string"]]

Operation(id, tgs, params, summary) ==
    [operationId |-> id, tags |-> tgs, parameters |-> params, summary |-> summary]

OpBare == Operation(None, None, None, None)
OpNamed == Operation(Some(<<"l", "i", "s", "t", "A", "p", "p", "s">>), Some(<< <<"x">> >>), Some(<<LimitParameter>>), Some("list"))
OpTagged == Operation(None, Some(<< <<"A", "l", "l", "o", "c", "a", "t", "i", "o", "n", " ", "S", "e", "r", "v", "i", "c", "e">>, <<"x">> >>),
                      Some(<<LimitParameter, QueryAuthorization>>), Some("alloc"))
OpEmptyTags == Operation(None, Some(<<>>), None, None)
OpRoot == Operation(Some(<<"r", "o", "o", "t">>), None, Some(<<>>), None)
OpNamedEmptyTags == Operation(Some(<<"k", "e", "e", "p", "M", "e">>), Some(<<>>), None, Some("keep"))
OpWithAuth == Operation(None, Some(<< <<"x">> >>), Some(<<AuthorizationParameter>>), None)

PathEntries ==
    { <<AllocationPath, << << <<"g", "e", "t">>, OpTagged >> >> >>,
      << <<"/", "u", "s", "e", "r", "/", "{", "i", "d", "}">>, << << <<"g", "e", "t">>, OpBare >>, << <<"h", "e", "a", "d">>, OpNamed >> >> >>,
      << <<"/", "u", "s", "e", "r", "/", "{", "i", "d", "}">>, << << <<"o", "p", "t", "i", "o", "n", "s">>, OpBare >>, << <<"p", "o", "s", "t">>, OpWithAuth >> >> >>,
      << <<"/", "a", "/", "/", "b">>, << << <<"g", "e", "t">>, OpBare >> >> >>,
      << <<"/", "a", "/", "/", "b">>, << << <<"d", "e", "l", "e", "t", "e">>, OpBare >>, << <<"g", "e", "t">>, OpNamed >> >> >>,
      << <<"/">>, << << <<"p", "u", "t">>, OpRoot >> >> >>,
      << <<"/", "t", "a", "s", "k", "/", "{", "I", "D", "}", "/", "l", "o", "g", "S", "t", "r", "e", "a", "m">>, << << <<"p", "a", "t", "c", "h">>, OpEmptyTags >> >> >>,
      << <<"/", "t", "a", "s", "k", "/", "{", "I", "D", "}", "/", "l", "o", "g", "S", "t", "r", "e", "a", "m">>, << << <<"h", "e", "a", "d">>, OpBare >>, << <<"o", "p", "t", "i", "o", "n", "s">>, OpNamed >> >> >>,
      << <<"/", "x", "/", "{", "}">>, << << <<"g", "e", "t">>, OpNamedEmptyTags >> >> >>,
      << <<"a", "l", "l", "o", "c", "a", "t", "i", "o", "n", "/">>, << << <<"p", "o", "s", "t">>, OpTagged >>, << <<"g", "e", "t">>, OpWithAuth >> >> >> }

\* the members of a `paths` object: up to n entries
RECURSIVE PathMembers(_)
PathMembers(n) ==
    IF n = 0 THEN { <<>> }
    ELSE PathMembers(n - 1) \cup
         { Append(ps, e) : ps \in { q \in PathMembers(n - 1) : Len(q) = n - 1 },
                           e \in PathEntries }

distinct_keys(d) == \A i, j \in 1..Len(d) : d[i][1] = d[j][1] => i = j

StrVersion(v) == [type |-> "str", value |-> v]
FloatVersion(v) == [type |-> "float", value |-> v]

Document(ps, ver) == [type |-> "dict", paths |-> ps, version |-> ver]

Documents ==
    { Document(None, Some(StrVersion(<<"1", ".", "0">>))) } \cup
    { Document(Some(ps), Some(StrVersion(<<"1", ".", "0">>))) :
          ps \in { q \in PathMembers(MaxPaths) : distinct_keys(q) } }

\* ---------------------------------------------------------------------
\* Idle values of the variables a specification does not use
\* ---------------------------------------------------------------------
GenIdle ==
    /\ path = <<>> /\ method = <<>> /\ tag = <<>> /\ operation_id = NotCalled

DocIdle ==
    /\ openapi_spec = Document(None, None) /\ original = Document(None, None)
    /\ applied = <<>> /\ raised = ""

RunIdle ==
    /\ script = "" /\ input_file = <<>> /\ disk = <<>> /\ disk0 = <<>>
    /\ dirs = {} /\ pc = "idle" /\ stdout = <<>> /\ exit_code = -1 /\ log = <<>>

\* ---------------------------------------------------------------------
\* SpecGen: one call of generate_operation_id
\* ---------------------------------------------------------------------
InitGen ==
    /\ path \in PathTemplates
    /\ method \in { RecognizedMethods[i] : i \in 1..Len(RecognizedMethods) }
    /\ tag \in Tags
    /\ operation_id = NotCalled
    /\ DocIdle /\ RunIdle

Generate_uos ==
    /\ operation_id.by = "none"
    /\ operation_id' = [by |-> "update_openapi_spec"] @@ generate_operation_id(path, method, tag)
    /\ UNCHANGED <<path, method, tag, docVars, runVars>>

Generate_aoi ==
    /\ operation_id.by = "none"
    /\ operation_id' = [by |-> "add_operation_id"] @@ generate_operation_id_aoi(path, method)
    /\ UNCHANGED <<path, method, tag, docVars, runVars>>

NextGen == Generate_uos \/ Generate_aoi

SpecGen == InitGen /\ [][NextGen]_vars

\* ---------------------------------------------------------------------
\* SpecTransform: the transform functions applied to a document in memory
\* ---------------------------------------------------------------------
InitTransform ==
    /\ openapi_spec \in Documents
    /\ original = openapi_spec
    /\ applied = <<>>
    /\ raised = ""
    /\ GenIdle /\ RunIdle

Apply_add_missing_items ==
    /\ Len(applied) < MaxRuns
    /\ raised = ""
    /\ LET r == add_missing_items(openapi_spec)
       IN /\ openapi_spec' = r.spec
          /\ raised' = r.exc
    /\ applied' = Append(applied, "add_missing_items")
    /\ UNCHANGED <<original, genVars, runVars>>

Apply_add_operation_ids ==
    /\ Len(applied) < MaxRuns
    /\ raised = ""
    /\ LET r == add_operation_ids(openapi_spec)
       IN /\ openapi_spec' = r.spec
          /\ raised' = r.exc
    /\ applied' = Append(applied, "add_operation_ids")
    /\ UNCHANGED <<original, genVars, runVars>>

NextTransform == Apply_add_missing_items \/ Apply_add_operation_ids

SpecTransform == InitTransform /\ [][NextTransform]_vars

\* ---------------------------------------------------------------------
\* Files
\* ---------------------------------------------------------------------
\* os.path.splitext(p): the extension starts at the last dot of the last
\* path component, unless only dots precede it in that component
splitext(p) ==
    LET idx(ch) == IF \E i \in 1..Len(p) : p[i] = ch
                   THEN CHOOSE i \in 1..Len(p) :
                            p[i] = ch /\ \A j \in (i+1)..Len(p) : p[j] # ch
                   ELSE 0
        sepIndex == idx("/")
        dotIndex == idx(".")
    IN IF dotIndex > sepIndex /\ \E i \in (sepIndex+1)..(dotIndex-1) : p[i] # "."
       THEN <<SubSeq(p, 1, dotIndex - 1), SubSeq(p, dotIndex, Len(p))>>
       ELSE <<p, <<>> >>

\* A file's text is its format and the members of its top-level object, in
\* text order; an object in a text may repeat a key.
Text(format, ver, ps) == [format |-> format, version |-> ver, paths |-> ps]

PlainText == Text("text", None, None)

\* the document a parser builds from a text: repeated keys collapse, last wins
parse(text) ==
    [type |-> "dict",
     version |-> text.version,
     paths |-> IF text.paths = None THEN None
               ELSE Some(dict_from_pairs(<<>>,
                        [i \in 1..Len(text.paths[1]) |->
                            <<text.paths[1][i][1],
                              dict_from_pairs(<<>>, text.paths[1][i][2])>>]))]

\* json.load(file)
json_load(text) ==
    IF text.format = "json" THEN Returned(parse(text))
    ELSE Raised("JSONDecodeError")

\* yaml.safe_load(file): a text that is no mapping loads as a scalar
yaml_safe_load(text) ==
    IF text.format \in {"yaml", "json"} THEN Returned(parse(text))
    ELSE Returned([type |-> "str", version |-> None, paths |-> None])

\* json.dump(updated_spec, file, indent=2)
json_dump(spec) == Text("json", spec.version, spec.paths)

\* yaml.dump(updated_spec, file, default_flow_style=False)
yaml_dump(spec) == Text("yaml", spec.version, spec.paths)

UserGet == << <<"/", "u", "s", "e", "r", "/", "{", "i", "d", "}">>, << << <<"g", "e", "t">>, OpBare >>, << <<"h", "e", "a", "d">>, OpNamed >> >> >>
UserPost == << <<"/", "u", "s", "e", "r", "/", "{", "i", "d", "}">>, << << <<"p", "o", "s", "t">>, OpWithAuth >>, << <<"p", "o", "s", "t">>, OpTagged >> >> >>
AllocationGet == <<AllocationPath, << << <<"g", "e", "t">>, OpTagged >>, << <<"o", "p", "t", "i", "o", "n", "s">>, OpBare >> >> >>

FileDocuments ==
    { <<Some(StrVersion(<<"1", ".", "2", ".", "0">>)), Some(<<AllocationGet, UserGet>>)>>,
      <<None, None>>,
      <<None, Some(<< << <<"/", "a", "/", "/", "b">>, << << <<"d", "e", "l", "e", "t", "e">>, OpBare >>, << <<"g", "e", "t">>, OpNamed >> >> >> >>)>>,
      <<Some(StrVersion(<<"2">>)), Some(<<UserGet, AllocationGet, UserPost>>)>>,
      <<Some(FloatVersion(<<"1", ".", "0">>)), Some(<<UserGet>>)>>,
      <<Some(StrVersion(<<"1", ".", "2", ".", "0">>)),
        Some(<<UserGet, << <<"/", "t", "a", "s", "k", "/", "{", "I", "D", "}", "/", "l", "o", "g", "S", "t", "r", "e", "a", "m">>, << << <<"p", "a", "t", "c", "h">>, OpEmptyTags >> >> >> >>)>> }

FileTexts ==
    { Text(f, d[1], d[2]) : f \in {"json", "yaml"}, d \in FileDocuments } \cup { PlainText }

InputFiles ==
    { <<"s", ".", "j", "s", "o", "n">>, <<"s", ".", "y", "a", "m", "l">>, <<"s", ".", "y", "m", "l">>, <<"s", ".", "t", "x", "t">>, <<"s", ".", "J", "S", "O", "N">>, <<"s">>, <<".", "j", "s", "o", "n">> }

StaleOutputFile == <<"o", "p", "e", "n", "a", "p", "i", "_", "s", "p", "e", "c", "/", "o", "p", "e", "n", "a", "p", "i", "_", "1", "_", "2", "_", "0", ".", "j", "s", "o", "n">>
StaleText == Text("json", Some(StrVersion(<<"1", ".", "2", ".", "0">>)), None)

Scripts == {"update_openapi_spec", "add_operation_id"}

FileNotFound(f) == [text |-> "File not found: ", arg |-> f]
UnsupportedFormat == [text |-> "Unsupported file format. Please use JSON or YAML.", arg |-> <<>>]
Saved(f) == [text |-> "Updated OpenAPI spec saved to ", arg |-> f]

\* ---------------------------------------------------------------------
\* Spec: one run of update_spec(input_file)
\* ---------------------------------------------------------------------
Init ==
    /\ script \in Scripts
    /\ input_file \in InputFiles
    /\ \E inp \in {None} \cup { Some(t) : t \in FileTexts }, stale \in BOOLEAN :
           disk = (IF inp = None THEN <<>> ELSE (input_file :> inp[1]))
                  @@ (IF stale THEN (StaleOutputFile :> StaleText) ELSE <<>>)
    /\ disk0 = disk
    /\ dirs = {}
    /\ pc = "start"
    /\ stdout = <<>>
    /\ exit_code = -1
    /\ log = <<>>
    /\ GenIdle /\ DocIdle

\* an exception nobody catches ends the process with status 1
Die(e) ==
    /\ raised' = e
    /\ exit_code' = 1
    /\ pc' = "exited"

\* update_openapi_spec.py, update_spec: the try block (Loader)
Load_uos_else_yaml ==
    /\ script = "update_openapi_spec"
    /\ pc = "start"
    /\ log' = Append(log, "read")
    /\ LET file_extension == str_lower(splitext(input_file)[2])
       IN IF input_file \notin DOMAIN disk
          THEN /\ stdout' = Append(stdout, FileNotFound(input_file))
               /\ exit_code' = 1
               /\ pc' = "exited"
               /\ UNCHANGED <<openapi_spec, original, raised>>
          ELSE LET r == IF file_extension = <<".", "j", "s", "o", "n">>
                        THEN json_load(disk[input_file])
                        ELSE yaml_safe_load(disk[input_file])
               IN IF r.ok
                  THEN /\ openapi_spec' = r.value
                       /\ original' = r.value
                       /\ pc' = "loaded"
                       /\ UNCHANGED <<stdout, exit_code, raised>>
                  ELSE /\ Die(r.exc)
                       /\ UNCHANGED <<stdout, openapi_spec, original>>
    /\ UNCHANGED <<applied, script, input_file, disk, disk0, dirs, genVars>>

Load_uos ==
    /\ script = "update_openapi_spec"
    /\ pc = "start"
    /\ log' = Append(log, "read")
    /\ LET file_extension == str_lower(splitext(input_file)[2])
       IN IF input_file \notin DOMAIN disk
          THEN \* except FileNotFoundError
               /\ stdout' = Append(stdout, FileNotFound(input_file))
               /\ exit_code' = 1
               /\ pc' = "exited"
               /\ UNCHANGED <<openapi_spec, original, raised>>
          ELSE IF file_extension \in { <<".", "j", "s", "o", "n">>, <<".", "y", "a", "m", "l">>, <<".", "y", "m", "l">> }
          THEN LET r == IF file_extension = <<".", "j", "s", "o", "n">>
                        THEN json_load(disk[input_file])
                        ELSE yaml_safe_load(disk[input_file])
               IN IF r.ok
                  THEN /\ openapi_spec' = r.value
                       /\ original' = r.value
                       /\ pc' = "loaded"
                       /\ UNCHANGED <<stdout, exit_code, raised>>
                  ELSE /\ Die(r.exc)
                       /\ UNCHANGED <<stdout, openapi_spec, original>>
          ELSE /\ stdout' = Append(stdout, UnsupportedFormat)
               /\ exit_code' = 1
               /\ pc' = "exited"
               /\ UNCHANGED <<openapi_spec, original, raised>>
    /\ UNCHANGED <<applied, script, input_file, disk, disk0, dirs, genVars>>

\* update_openapi_spec.py, update_spec: updated_spec = add_missing_items(openapi_spec)
Transform_uos_swallow ==
    /\ script = "update_openapi_spec"
    /\ pc = "loaded"
    /\ log' = Append(log, "transform")
    /\ applied' = Append(applied, "add_missing_items")
    /\ LET r == add_missing_items(openapi_spec)
       IN /\ openapi_spec' = r.spec
          /\ raised' = r.exc
          /\ pc' = "transformed"
          /\ UNCHANGED exit_code
    /\ UNCHANGED <<original, stdout, script, input_file, disk, disk0, dirs, genVars>>

Transform_uos ==
    /\ script = "update_openapi_spec"
    /\ pc = "loaded"
    /\ log' = Append(log, "transform")
    /\ applied' = Append(applied, "add_missing_items")
    /\ LET r == add_missing_items(openapi_spec)
       IN /\ openapi_spec' = r.spec
          /\ IF r.exc = ""
             THEN pc' = "transformed" /\ UNCHANGED <<raised, exit_code>>
             ELSE Die(r.exc)
    /\ UNCHANGED <<original, stdout, script, input_file, disk, disk0, dirs, genVars>>

\* update_openapi_spec.py, update_spec: output path and save (Writer)
Write_uos ==
    /\ script = "update_openapi_spec"
    /\ pc = "transformed"
    /\ LET file_extension == str_lower(splitext(input_file)[2])
           version == IF openapi_spec.version = None
                      THEN StrVersion(<<"u", "n", "k", "n", "o", "w", "n">>)
                      ELSE openapi_spec.version[1]
           api_version == replace(version.value, ".", "_")
           output_file == <<"o", "p", "e", "n", "a", "p", "i", "_", "s", "p", "e", "c", "/", "o", "p", "e", "n", "a", "p", "i", "_">> \o api_version \o <<".">>
                          \o strip(file_extension, ".")
       IN IF version.type # "str"
          THEN \* a number has no .replace
               /\ Die("AttributeError")
               /\ UNCHANGED <<disk, dirs, stdout, log>>
          ELSE /\ dirs' = dirs \cup { <<"o", "p", "e", "n", "a", "p", "i", "_", "s", "p", "e", "c">> }
               /\ disk' = (output_file :>
                              IF file_extension = <<".", "j", "s", "o", "n">>
                              THEN json_dump(openapi_spec)
                              ELSE yaml_dump(openapi_spec)) @@ disk
               /\ log' = Append(log, "write")
               /\ stdout' = Append(stdout, Saved(output_file))
               /\ exit_code' = 0
               /\ pc' = "done"
               /\ UNCHANGED raised
    /\ UNCHANGED <<openapi_spec, original, applied, script, input_file, disk0, genVars>>

\* add_operation_id.py, update_spec: the try block (Loader)
Load_aoi ==
    /\ script = "add_operation_id"
    /\ pc = "start"
    /\ log' = Append(log, "read")
    /\ IF input_file \notin DOMAIN disk
       THEN /\ stdout' = Append(stdout, FileNotFound(input_file))
            /\ exit_code' = 1
            /\ pc' = "exited"
            /\ UNCHANGED <<openapi_spec, original, raised>>
       ELSE LET r == json_load(disk[input_file])
            IN IF r.ok
               THEN /\ openapi_spec' = r.value
                    /\ original' = r.value
                    /\ pc' = "loaded"
                    /\ UNCHANGED <<stdout, exit_code, raised>>
               ELSE /\ Die(r.exc)
                    /\ UNCHANGED <<stdout, openapi_spec, original>>
    /\ UNCHANGED <<applied, script, input_file, disk, disk0, dirs, genVars>>

\* add_operation_id.py, update_spec: updated_spec = add_operation_ids(openapi_spec)
Transform_aoi ==
    /\ script = "add_operation_id"
    /\ pc = "loaded"
    /\ log' = Append(log, "transform")
    /\ applied' = Append(applied, "add_operation_ids")
    /\ LET r == add_operation_ids(openapi_spec)
       IN /\ openapi_spec' = r.spec
          /\ IF r.exc = ""
             THEN pc' = "transformed" /\ UNCHANGED <<raised, exit_code>>
             ELSE Die(r.exc)
    /\ UNCHANGED <<original, stdout, script, input_file, disk, disk0, dirs, genVars>>

\* add_operation_id.py, update_spec: overwrite the input file (Writer)
Write_aoi ==
    /\ script = "add_operation_id"
    /\ pc = "transformed"
    /\ disk' = (input_file :> json_dump(openapi_spec)) @@ disk
    /\ log' = Append(log, "write")
    /\ stdout' = Append(stdout, Saved(input_file))
    /\ exit_code' = 0
    /\ pc' = "done"
    /\ UNCHANGED <<openapi_spec, original, applied, raised, script, input_file,
                   disk0, dirs, genVars>>

Next ==
    \/ Load_uos \/ Transform_uos \/ Write_uos
    \/ Load_aoi \/ Transform_aoi \/ Write_aoi

Spec == Init /\ [][Next]_vars

\* ---------------------------------------------------------------------
\* Vocabulary of the properties
\* ---------------------------------------------------------------------
PathsOf(spec) == IF spec.paths = None THEN <<>> ELSE spec.paths[1]

Recognized == { RecognizedMethods[i] : i \in 1..Len(RecognizedMethods) }

ParametersOf(op) == IF op.parameters = None THEN <<>> ELSE op.parameters[1]

IsAuthorizationHeader(prm) == prm.name = "Authorization" /\ prm.in = "header"

CountAuthorization(op) ==
    Cardinality({ k \in 1..Len(ParametersOf(op)) : IsAuthorizationHeader(ParametersOf(op)[k]) })

\* the <<i, j>> of every Operation of a document stored under a recognized method
RecognizedOps(spec) ==
    { ij \in UNION { { <<i, j>> : j \in 1..Len(PathsOf(spec)[i][2]) } : i \in 1..Len(PathsOf(spec)) } :
          PathsOf(spec)[ij[1]][2][ij[2]][1] \in Recognized }

OpAt(spec, ij) == PathsOf(spec)[ij[1]][2][ij[2]][2]

LastApplied == IF applied = <<>> THEN "" ELSE applied[Len(applied)]

Segments(p) == split(strip(p, "/"), "/")

IsSuffix(s, t) == Len(s) <= Len(t) /\ SubSeq(t, Len(t) - Len(s) + 1, Len(t)) = s

Contains(t, s) == \E k \in 0..(Len(t) - Len(s)) : SubSeq(t, k + 1, k + Len(s)) = s

\* `By` + capitalized name for {name}, the capitalized literal otherwise,
\* nothing for an empty segment
Rendered(seg) ==
    IF seg = <<>> THEN <<>>
    ELSE IF Head(seg) = "{" /\ seg[Len(seg)] = "}" /\ Len(seg) >= 2
    THEN <<"B", "y">> \o capitalize(SubSeq(seg, 2, Len(seg) - 1))
    ELSE capitalize(seg)

RECURSIVE RenderedAll(_)
RenderedAll(segs) ==
    IF segs = <<>> THEN <<>> ELSE Rendered(Head(segs)) \o RenderedAll(Tail(segs))

\* the segments the script named in operation_id.by renders
KeptSegments ==
    IF operation_id.by = "update_openapi_spec"
    THEN without(Segments(path), <<"a", "l", "l", "o", "c", "a", "t", "i", "o", "n">>)
    ELSE Segments(path)

SameKeys(a, b) ==
    /\ keys(PathsOf(a)) = keys(PathsOf(b))
    /\ \A p \in keys(PathsOf(a)) :
           keys(PathsOf(a)[index_of(PathsOf(a), p)][2])
               = keys(PathsOf(b)[index_of(PathsOf(b), p)][2])

\* ---------------------------------------------------------------------
\* Properties
\* ---------------------------------------------------------------------

\* C1: once add_missing_items has been applied to a document, every Operation
\* under a recognized method has a non-empty operationId and a parameters
\* sequence with an Authorization header entry, whatever its tags and
\* operationId were.
C1_AllOperationsComplete ==
    LastApplied = "add_missing_items" =>
        \A ij \in RecognizedOps(openapi_spec) :
            /\ OpAt(openapi_spec, ij).operationId # None
            /\ OpAt(openapi_spec, ij).operationId[1] # <<>>
            /\ CountAuthorization(OpAt(openapi_spec, ij)) >= 1

\* C2: an operationId that an Operation under a recognized method had before
\* the transforms is still its operationId after them.
C2_PassThrough ==
    \A ij \in RecognizedOps(original) :
        OpAt(original, ij).operationId # None =>
            OpAt(openapi_spec, ij).operationId = OpAt(original, ij).operationId

C2_Witness ==
    /\ applied # <<>>
    /\ raised = ""
    /\ \E ij \in RecognizedOps(original) : OpAt(original, ij).operationId # None
    /\ \E ij \in RecognizedOps(original) :
           /\ OpAt(original, ij).operationId = None
           /\ OpAt(openapi_spec, ij).operationId # None

IsAllocationScenario ==
    /\ operation_id.by = "update_openapi_spec"
    /\ path = AllocationPath
    /\ method = <<"g", "e", "t">>
    /\ tag = <<"A", "l", "l", "o", "c", "a", "t", "i", "o", "n", " ", "S", "e", "r", "v", "i", "c", "e">>

\* C3 (as stated): for /allocation/{tenant}/service/{appid}, get and tag
\* `Allocation Service` the generated id is
\* allocationServiceGetByTenantServiceByAppid.
C3_Original ==
    IsAllocationScenario =>
        /\ operation_id.ok
        /\ operation_id.value = <<"a", "l", "l", "o", "c", "a", "t", "i", "o", "n", "S", "e", "r", "v", "i", "c", "e", "G", "e", "t", "B", "y", "T", "e", "n", "a", "n", "t", "S", "e", "r", "v", "i", "c", "e", "B", "y", "A", "p", "p", "i", "d">>

\* C3 (amended): for /allocation/{tenant}/service/{appid}, get and tag
\* `Allocation Service` the generated id is
\* AllocationServiceGetByTenantServiceByAppid: the first word of the tag keeps
\* its own capital letter.
C3_AllocationScenario ==
    IsAllocationScenario =>
        /\ operation_id.ok
        /\ operation_id.value = <<"A", "l", "l", "o", "c", "a", "t", "i", "o", "n", "S", "e", "r", "v", "i", "c", "e", "G", "e", "t", "B", "y", "T", "e", "n", "a", "n", "t", "S", "e", "r", "v", "i", "c", "e", "B", "y", "A", "p", "p", "i", "d">>

C3_Witness == IsAllocationScenario /\ operation_id.ok

\* C4: after add_missing_items has been applied twice in succession to a
\* document, every Operation under a recognized method that had no
\* Authorization header parameter at first has exactly two.
C4_TwoRunsTwoParameters ==
    applied = <<"add_missing_items", "add_missing_items">> =>
        \A ij \in RecognizedOps(original) :
            CountAuthorization(OpAt(original, ij)) = 0 =>
                CountAuthorization(OpAt(openapi_spec, ij)) = 2

C4_Witness ==
    /\ applied = <<"add_missing_items", "add_missing_items">>
    /\ \E ij \in RecognizedOps(original) :
           /\ CountAuthorization(OpAt(original, ij)) = 0
           /\ ParametersOf(OpAt(original, ij)) # <<>>

\* C5: for a path template with an empty segment the generation of the
\* operationId does not fail, and the identifier ends with the rendering of
\* the other segments: the empty segment contributes nothing.
C5_EmptySegmentContributesNothing ==
    (operation_id.by # "none" /\ \E i \in 1..Len(KeptSegments) : KeptSegments[i] = <<>>) =>
        /\ operation_id.ok
        /\ IsSuffix(RenderedAll(KeptSegments), operation_id.value)

UnsupportedOutcome ==
    /\ stdout = <<UnsupportedFormat>>
    /\ exit_code = 1
    /\ pc = "exited"
    /\ disk = disk0
    /\ log = <<"read">>

\* C6 (as stated): update_openapi_spec.py given any input path whose extension
\* is none of .json, .yaml, .yml prints the unsupported-format message, exits
\* with status 1 and writes no file.
C6_Original ==
    (/\ script = "update_openapi_spec"
     /\ pc # "start"
     /\ splitext(input_file)[2] \notin { <<".", "j", "s", "o", "n">>, <<".", "y", "a", "m", "l">>, <<".", "y", "m", "l">> })
        => UnsupportedOutcome

\* C6 (amended): update_openapi_spec.py given an input path that names an
\* existing file and whose extension, lower-cased, is none of .json, .yaml,
\* .yml prints the unsupported-format message, exits with status 1 and writes
\* no file; the transform and the writer are never reached.
C6_UnsupportedFormat ==
    (/\ script = "update_openapi_spec"
     /\ pc # "start"
     /\ input_file \in DOMAIN disk0
     /\ str_lower(splitext(input_file)[2]) \notin { <<".", "j", "s", "o", "n">>, <<".", "y", "a", "m", "l">>, <<".", "y", "m", "l">> })
        => UnsupportedOutcome

C6_Witness ==
    /\ script = "update_openapi_spec"
    /\ input_file = <<"s", ".", "t", "x", "t">>
    /\ input_file \in DOMAIN disk0
    /\ pc = "exited"

WrittenFile == stdout[Len(stdout)].arg

\* C7: the document in memory always has the paths and, under each path, the
\* method keys of the document as loaded, and so does the JSON output once it
\* is written and loaded again.
C7_KeysPreserved ==
    /\ SameKeys(original, openapi_spec)
    /\ (pc = "done" /\ disk[WrittenFile].format = "json") =>
           /\ json_load(disk[WrittenFile]).ok
           /\ SameKeys(original, json_load(disk[WrittenFile]).value)

C7_Witness ==
    /\ pc = "done"
    /\ disk[WrittenFile].format = "json"
    /\ Len(PathsOf(original)) >= 2
    /\ openapi_spec # original
    /\ \E p \in keys(PathsOf(original)) :
           keys(PathsOf(original)[index_of(PathsOf(original), p)][2]) \ Recognized # {}

\* C8: a run reads, then transforms, then writes, each at most once; files
\* and directories differ from what they were only when all three happened and
\* nothing was raised, so a run that failed left the disk as it was.
C8_StagesInOrder ==
    /\ log \in { SubSeq(<<"read", "transform", "write">>, 1, n) : n \in 0..3 }
    /\ (disk # disk0 \/ dirs # {}) =>
           (log = <<"read", "transform", "write">> /\ raised = "" /\ pc = "done")
    /\ (pc = "exited" \/ raised # "") => (disk = disk0 /\ dirs = {})
    /\ openapi_spec # original => (Len(log) >= 2 /\ log[1] = "read")

C8_Witness ==
    /\ script = "add_operation_id"
    /\ input_file \in DOMAIN disk0
    /\ log = <<"read", "transform">>
    /\ raised = "IndexError"
    /\ pc = "exited"
    /\ disk = disk0

\* C9 (as stated): a generated identifier ends with the rendering of every
\* segment of the path in order, `By` + capitalized name for {name} and the
\* capitalized literal otherwise, so it contains ById when {id} is a segment.
C9_Original ==
    (operation_id.by # "none" /\ operation_id.ok) =>
        /\ IsSuffix(RenderedAll(Segments(path)), operation_id.value)
        /\ (\E i \in 1..Len(Segments(path)) : Segments(path)[i] = <<"{", "i", "d", "}">>)
               => Contains(operation_id.value, <<"B", "y", "I", "d">>)

\* C9 (amended): a generated identifier ends with the rendering, in order, of
\* every segment of the path that the script keeps (all of them in
\* add_operation_id.py, all but the literal `allocation` in
\* update_openapi_spec.py), and contains ById when {id} is a segment.
C9_SegmentsRendered ==
    (operation_id.by # "none" /\ operation_id.ok) =>
        /\ IsSuffix(RenderedAll(KeptSegments), operation_id.value)
        /\ (\E i \in 1..Len(Segments(path)) : Segments(path)[i] = <<"{", "i", "d", "}">>)
               => Contains(operation_id.value, <<"B", "y", "I", "d">>)

C9_Witness ==
    /\ operation_id.by = "update_openapi_spec"
    /\ operation_id.ok
    /\ path = <<"/", "u", "s", "e", "r", "/", "{", "i", "d", "}">>
    /\ Contains(operation_id.value, <<"B", "y", "I", "d">>)

\* what one application of add_missing_items may change between a and b
FrameOfAddMissingItems(a, b, completed) ==
    /\ a.type = b.type
    /\ a.version = b.version
    /\ (a.paths = None) = (b.paths = None)
    /\ Len(PathsOf(a)) = Len(PathsOf(b))
    /\ \A i \in 1..Len(PathsOf(a)) :
        /\ PathsOf(a)[i][1] = PathsOf(b)[i][1]
        /\ Len(PathsOf(a)[i][2]) = Len(PathsOf(b)[i][2])
        /\ \A j \in 1..Len(PathsOf(a)[i][2]) :
            LET ka == PathsOf(a)[i][2][j][1]
                oa == PathsOf(a)[i][2][j][2]
                ob == PathsOf(b)[i][2][j][2]
            IN /\ ka = PathsOf(b)[i][2][j][1]
               /\ IF ka \notin Recognized
                  THEN oa = ob
                  ELSE /\ oa.tags = ob.tags
                       /\ oa.summary = ob.summary
                       /\ \/ ob.parameters = Some(ParametersOf(oa) \o <<AuthorizationParameter>>)
                          \/ ~completed /\ ob = oa

\* C10: an application of add_missing_items changes only operationId and
\* parameters of the Operations under recognized methods: other keys of a path
\* item and other keys of an Operation stay as they were, and parameters
\* becomes the old sequence followed by the Authorization parameter.
C10_Frame ==
    [][(applied' # applied /\ applied'[Len(applied')] = "add_missing_items")
          => FrameOfAddMissingItems(openapi_spec, openapi_spec', raised' = "")]_vars

C10_Witness ==
    /\ applied = <<"add_missing_items">>
    /\ raised = ""
    /\ \E i \in 1..Len(PathsOf(original)) :
           keys(PathsOf(original)[i][2]) \ Recognized # {}
    /\ \E ij \in RecognizedOps(original) :
           /\ Len(ParametersOf(OpAt(original, ij))) >= 2
           /\ OpAt(original, ij).tags # None
====
